---- MODULE Spec2Model ----
(***************************************************************************)
(* Model of tkautobox.py: the Autobox dialog (a Tk root window built from  *)
(* a list of field dicts), its two terminal callbacks, and the wrappers    *)
(* autobox() and loginbox().                                               *)
(*                                                                         *)
(* Python values are records [k, v]: k is the Python type ("str", "bool"), *)
(* or, for a Tk variable object, its class ("StringVar", "BooleanVar");    *)
(* v is the string held (for a Tk variable: the value of the Tcl variable).*)
(***************************************************************************)
EXTENDS Integers, Sequences, FiniteSets, TLC

\* ---------------------------------------------------------------- bounds
MaxFields == 2          \* longest field list passed to autobox
MaxAdditional == 1      \* longest additional_fields list passed to loginbox

\* ------------------------------------------------------- Python values
Str(s) == [k |-> "str", v |-> s]
PyTrue == [k |-> "bool", v |-> "1"]
PyFalse == [k |-> "bool", v |-> "0"]
\* dict.get(key) on a missing key, with no fallback given
Absent == [k |-> "absent", v |-> ""]
NoneName == "<None>"
NoType == "<absent>"
NoTheme == "<None>"

\* what Tcl stores when Python hands it a value (str as is, bool as 1/0)
TclStr(x) == x.v

TclTrue == {"1", "true", "yes", "on"}
TclFalse == {"0", "false", "no", "off"}
\* Tcl_GetBoolean accepts exactly these
IsTclBoolean(s) == s \in TclTrue \cup TclFalse

\* ------------------------------------------------------- field specs
Field(n, t, d, o) == [name |-> n, type |-> t, default |-> d, options |-> o]

AB == <<"A", "B">>

FieldUniverse ==
    { Field(NoneName, "text", Absent, <<>>),
      Field("", "text", Str("bob"), <<>>),
      Field("a", "text", Absent, <<>>),
      Field("a", "text", Str("bob"), <<>>),
      Field("a", "text", PyTrue, <<>>),
      Field("a", "hidden_text", Absent, <<>>),
      Field("a", NoType, Str("bob"), <<>>),
      Field("a", "select", Absent, AB),
      Field("a", "select", Str("A"), AB),
      Field("a", "select", Str("Z"), AB),
      Field("a", "checkbox", Absent, <<>>),
      Field("a", "checkbox", PyTrue, <<>>),
      Field("a", "checkbox", PyFalse, <<>>),
      Field("b", "text", Str("bob"), <<>>),
      Field("b", "select", Str("B"), AB),
      Field("b", "checkbox", PyTrue, <<>>) }

\* field lists of length 0..n
FieldLists(n) == UNION { [1..m -> FieldUniverse] : m \in 0..n }

\* what the user can type into an Entry
TypedStrings == {"", "x"}

\* Style().theme_names()
ThemeNames == {"clam", "alt", "default", "classic"}
ThemeArgs == {"alt", "bogus", NoTheme}

Range(s) == { s[i] : i \in 1..Len(s) }

\* ------------------------------------------------------- Tk variables
\* Autobox.variable_types
variable_types(t) == IF t = "checkbox" THEN "BooleanVar" ELSE "StringVar"

\* field.get("type", "text")
FieldType(f) == IF f.type = NoType THEN "text" ELSE f.type

\* field.get("default", "")
FieldDefault(f) == IF f.default = Absent THEN Str("") ELSE f.default

\* x.get("name") is truthy
HasName(f) == f.name \notin {NoneName, ""}

\* Variable.set(value) can be carried out: StringVar takes anything;
\* BooleanVar passes the value through getboolean first when the toolkit is
\* the validating one (Python >= 3.5), and stores it unchecked otherwise
CanSet(cls, value, strict) ==
    \/ cls = "StringVar"
    \/ ~strict
    \/ value.k = "bool"
    \/ IsTclBoolean(value.v)

\* the variable object after Variable.set(value)
VarSet(cls, value, strict) ==
    IF cls = "BooleanVar" /\ strict
    THEN [k |-> cls, v |-> IF value.v \in TclTrue THEN "1" ELSE "0"]
    ELSE [k |-> cls, v |-> TclStr(value)]

IsVar(x) == x.k \in {"StringVar", "BooleanVar"}

\* var.get() returns instead of raising
CanGet(x) ==
    /\ IsVar(x)
    /\ x.k = "BooleanVar" => IsTclBoolean(x.v)

\* var.get()
VarGet(x) ==
    IF x.k = "BooleanVar"
    THEN (IF x.v \in TclTrue THEN PyTrue ELSE PyFalse)
    ELSE Str(x.v)

EmptyDict == [n \in {} |-> Absent]

VARIABLES
    entry,              \* which wrapper the caller invoked
    kw,                 \* further keywords the caller passed (names)
    arg_fields,         \* caller's fields / additional_fields list
    default_username,   \* loginbox keyword
    theme,              \* theme keyword
    strictBooleanVar,   \* toolkit build: BooleanVar.set validates
    pc,                 \* position of the calling thread
    call_fields,        \* kwargs["fields"] as received by Autobox
    fields,             \* self.fields
    data,               \* self.data
    current_theme,      \* theme in use by the toolkit's Style
    window,             \* "none", "alive", "destroyed"
    outcome,            \* "none", "committed", "cancelled", "closed"
    trigger,            \* event that ran the terminal callback
    edited,             \* names whose widget the user has changed
    log,                \* order of the terminal steps
    exc,                \* exception that left the call, "" if none
    tk_error,           \* an exception was reported from a callback
    result              \* what autobox returned

vars == <<entry, kw, arg_fields, default_username, theme, strictBooleanVar,
          pc, call_fields, fields, data, current_theme, window, outcome,
          trigger, edited, log, exc, tk_error, result>>

inputs == <<entry, kw, arg_fields, default_username, theme, strictBooleanVar>>


\* ------------------------------------------------------- construction
\* variant: an existing key keeps its first value
Put_first_wins(d, key, val) ==
    [n \in DOMAIN d \cup {key} |-> IF n \in DOMAIN d THEN d[n] ELSE val]

\* self.data[fn] = value
Put(d, key, val) ==
    [n \in DOMAIN d \cup {key} |-> IF n = key THEN val ELSE d[n]]

\* variant: the list is kept as passed, nameless entries included
RetainedFields_unfiltered(fs) == fs

\* self.fields = [x for x in self.fields if x.get("name")]
RetainedFields(fs) == SelectSeq(fs, HasName)

\* the loop that creates the dictionary of variables, from field i on;
\* ok = FALSE when a Variable.set raised
RECURSIVE BuildData(_, _, _, _)
BuildData(fs, i, acc, strict) ==
    IF i > Len(fs) THEN [ok |-> TRUE, data |-> acc]
    ELSE LET cls == variable_types(FieldType(fs[i]))
             dflt == FieldDefault(fs[i])
         IN  IF CanSet(cls, dflt, strict)
             THEN BuildData(fs, i + 1,
                            Put(acc, fs[i].name, VarSet(cls, dflt, strict)),
                            strict)
             ELSE [ok |-> FALSE, data |-> acc]

\* variant: theme_use is called without the membership test
ThemeAfter_unchecked(cur, th) == th

\* if self.theme in s.theme_names(): s.theme_use(self.theme)
ThemeAfter(cur, th) == IF th \in ThemeNames THEN th ELSE cur

\* the widget created for a field
WidgetOf(f) ==
    CASE FieldType(f) = "select" -> "Combobox"
      [] FieldType(f) = "checkbox" -> "Checkbutton"
      [] FieldType(f) = "hidden_text" -> "HiddenEntry"
      [] OTHER -> "Entry"

\* loginbox's two standard fields
default_fields(du) ==
    << Field("username", "text", Str(du), <<>>),
       Field("password", "hidden_text", Absent, <<>>) >>

\* keywords loginbox passes explicitly next to **kwargs
ExplicitKeywords == {"fields", "ok_label", "title_string"}

Init ==
    /\ entry \in {"autobox", "loginbox"}
    /\ strictBooleanVar \in BOOLEAN
    /\ theme \in ThemeArgs
    /\ IF entry = "autobox"
       THEN /\ arg_fields \in FieldLists(MaxFields)
            /\ kw = {}
            /\ default_username = ""
            /\ pc = "autobox"
            /\ call_fields = arg_fields
       ELSE /\ arg_fields \in FieldLists(MaxAdditional)
            /\ kw \in SUBSET {"ok_label", "title_string", "header_string"}
            /\ default_username \in {"", "bob"}
            /\ pc = "loginbox"
            /\ call_fields = <<>>
    /\ fields = <<>>
    /\ data = EmptyDict
    /\ current_theme = "default"
    /\ window = "none"
    /\ outcome = "none"
    /\ trigger = "none"
    /\ edited = {}
    /\ log = <<>>
    /\ exc = ""
    /\ tk_error = FALSE
    /\ result = EmptyDict

\* loginbox(**kwargs) up to its call of autobox
loginbox ==
    /\ pc = "loginbox"
    /\ IF kw \cap ExplicitKeywords # {}
       THEN /\ pc' = "raised"
            /\ exc' = "TypeError"
            /\ UNCHANGED call_fields
       ELSE /\ pc' = "autobox"
            /\ call_fields' = default_fields(default_username) \o arg_fields
            /\ UNCHANGED exc
    /\ UNCHANGED <<inputs, fields, data, current_theme, window, outcome,
                   trigger, edited, log, tk_error, result>>

\* Autobox.__init__
Autobox_init ==
    /\ pc = "autobox"
    /\ LET fs == RetainedFields(call_fields)
           built == BuildData(fs, 1, EmptyDict, strictBooleanVar)
       IN  /\ current_theme' = ThemeAfter(current_theme, theme)
           /\ fields' = fs
           /\ data' = built.data
           /\ window' = "alive"
           /\ IF built.ok
              THEN pc' = "mainloop" /\ UNCHANGED exc
              ELSE pc' = "raised" /\ exc' = "TclError"
    /\ UNCHANGED <<inputs, call_fields, outcome, trigger, edited, log,
                   tk_error, result>>

\* ------------------------------------------------------- user events
\* the values the user can give the widget of field f, whose variable
\* currently holds cur
WidgetValues(f, cur) ==
    CASE WidgetOf(f) = "Combobox" -> Range(f.options)
      [] WidgetOf(f) = "Checkbutton" -> {IF cur = "1" THEN "0" ELSE "1"}
      [] OTHER -> TypedStrings

\* the user changes the widget in row i; the widget writes its value into
\* the Tcl variable behind self.data[fn]
user_edit ==
    /\ pc = "mainloop"
    /\ \E i \in 1..Len(fields) :
         LET fn == fields[i].name
         IN  /\ IsVar(data[fn])
             /\ \E s \in WidgetValues(fields[i], data[fn].v) :
                  data' = [data EXCEPT ![fn].v = s]
             /\ edited' = edited \cup {fn}
    /\ UNCHANGED <<inputs, pc, call_fields, fields, current_theme, window,
                   outcome, trigger, log, exc, tk_error, result>>

\* variant: the callback reads the cells but does not stop the loop
ok_clicked_without_quit(ev) ==
    IF \A n \in DOMAIN data : CanGet(data[n])
    THEN /\ data' = [n \in DOMAIN data |-> VarGet(data[n])]
         /\ log' = log \o <<"read">>
         /\ outcome' = "committed"
         /\ trigger' = ev
         /\ UNCHANGED <<pc, tk_error>>
    ELSE /\ tk_error' = TRUE
         /\ UNCHANGED <<data, log, pc, outcome, trigger>>

\* Autobox.ok_clicked, run by event ev
ok_clicked(ev) ==
    IF \A n \in DOMAIN data : CanGet(data[n])
    THEN /\ data' = [n \in DOMAIN data |-> VarGet(data[n])]
         /\ log' = log \o <<"read", "quit">>
         /\ pc' = "quit"
         /\ outcome' = "committed"
         /\ trigger' = ev
         /\ UNCHANGED tk_error
    ELSE /\ tk_error' = TRUE
         /\ UNCHANGED <<data, log, pc, outcome, trigger>>

\* variant: the callback stops the loop without emptying self.data
cancel_clicked_keeps_data(ev) ==
    /\ log' = log \o <<"quit">>
    /\ pc' = "quit"
    /\ outcome' = "cancelled"
    /\ trigger' = ev
    /\ UNCHANGED <<data, tk_error>>

\* Autobox.cancel_clicked, run by event ev
cancel_clicked(ev) ==
    /\ data' = EmptyDict
    /\ log' = log \o <<"clear", "quit">>
    /\ pc' = "quit"
    /\ outcome' = "cancelled"
    /\ trigger' = ev
    /\ UNCHANGED tk_error

unchanged_by_callbacks ==
    UNCHANGED <<inputs, call_fields, fields, current_theme, window, edited,
                exc, result>>

ok_button ==
    pc = "mainloop" /\ ok_clicked("ok_button") /\ unchanged_by_callbacks

return_key ==
    pc = "mainloop" /\ ok_clicked("Return") /\ unchanged_by_callbacks

cancel_button ==
    pc = "mainloop" /\ cancel_clicked("cancel_button")
    /\ unchanged_by_callbacks

escape_key ==
    pc = "mainloop" /\ cancel_clicked("Escape") /\ unchanged_by_callbacks

\* the window manager closes the window: Tk destroys it and mainloop
\* returns because no main window is left
wm_close ==
    /\ pc = "mainloop"
    /\ window' = "destroyed"
    /\ log' = log \o <<"destroy">>
    /\ pc' = "quit"
    /\ outcome' = "closed"
    /\ trigger' = "wm_close"
    /\ UNCHANGED <<inputs, call_fields, fields, data, current_theme, edited,
                   exc, tk_error, result>>

\* variant: the window is destroyed before the mapping is taken
autobox_return_destroy_first ==
    /\ pc = "quit"
    /\ IF window = "alive"
       THEN /\ log' = log \o <<"destroy", "capture">>
            /\ window' = "destroyed"
            /\ result' = data
            /\ pc' = "returned"
            /\ UNCHANGED exc
       ELSE /\ pc' = "raised"
            /\ exc' = "TclError"
            /\ UNCHANGED <<window, result, log>>
    /\ UNCHANGED <<inputs, call_fields, fields, data, current_theme, outcome,
                   trigger, edited, tk_error>>

\* autobox after ab.mainloop() has returned:
\* data = ab.data; ab.destroy(); return data
autobox_return ==
    /\ pc = "quit"
    /\ IF window = "alive"
       THEN /\ log' = log \o <<"capture", "destroy">>
            /\ window' = "destroyed"
            /\ result' = data
            /\ pc' = "returned"
            /\ UNCHANGED exc
       ELSE /\ log' = log \o <<"capture">>
            /\ pc' = "raised"
            /\ exc' = "TclError"
            /\ UNCHANGED <<window, result>>
    /\ UNCHANGED <<inputs, call_fields, fields, data, current_theme, outcome,
                   trigger, edited, tk_error>>

Next ==
    \/ loginbox
    \/ Autobox_init
    \/ user_edit
    \/ ok_button
    \/ return_key
    \/ cancel_button
    \/ escape_key
    \/ wm_close
    \/ autobox_return

Spec == Init /\ [][Next]_vars


\* ------------------------------------------------------- properties
\* names of the entries of the received list that have a non-empty name
RetainedNames ==
    { call_fields[i].name :
        i \in { j \in 1..Len(call_fields) :
                  call_fields[j].name # NoneName /\ call_fields[j].name # "" } }

Committed == outcome = "committed"
Returned == pc = "returned"

\* field i is the last retained field carrying its name
LastOfName(i) == \A j \in (i + 1)..Len(fields) : fields[j].name # fields[i].name

\* field i is the only retained field carrying its name
OnlyOfName(i) ==
    \A j \in 1..Len(fields) : j # i => fields[j].name # fields[i].name

\* C1: after a commit (OK button or Enter key) the keys of the mapping are
\* exactly the non-empty names of the field list that was passed in: no key
\* for a nameless entry, no retained name missing, repeated names included.
C1_KeySet ==
    Committed =>
        /\ trigger \in {"ok_button", "Return"}
        /\ DOMAIN data = RetainedNames
        /\ Returned => DOMAIN result = RetainedNames

C1_Witness ==
    /\ Returned /\ Committed
    /\ \E i \in 1..Len(call_fields) : ~HasName(call_fields[i])
    /\ DOMAIN result # {}

\* C2: cancelling by the Cancel button or the Escape key makes the result
\* the empty mapping, whatever the fields, defaults and earlier edits.
C2_CancelEmpty ==
    outcome = "cancelled" =>
        /\ trigger \in {"cancel_button", "Escape"}
        /\ data = EmptyDict
        /\ Returned => result = EmptyDict

C2_Witness ==
    /\ Returned /\ outcome = "cancelled" /\ trigger = "Escape"
    /\ edited # {}
    /\ Len(fields) > 0

\* C3 (as claimed): a committed mapping holds a boolean for every
\* checkbox field and a member of the field's options for every select
\* field, whatever the defaults and edits.
C3_TypedValues ==
    (Returned /\ Committed) =>
        \A i \in 1..Len(fields) :
            /\ FieldType(fields[i]) = "checkbox"
                  => result[fields[i].name].k = "bool"
            /\ FieldType(fields[i]) = "select"
                  => /\ result[fields[i].name].k = "str"
                     /\ result[fields[i].name].v \in Range(fields[i].options)

\* the default has the Python type the field's variable returns
DefaultMatchesCell(f) ==
    f.default.k =
        (IF variable_types(FieldType(f)) = "BooleanVar" THEN "bool" ELSE "str")

\* C4 (as claimed): every retained field that provides a default (of the
\* type of its kind) and whose widget was not edited is returned with that
\* default, a field whose name is repeated by a later field included.
C4_Original ==
    (Returned /\ Committed) =>
        \A i \in 1..Len(fields) :
            ( /\ fields[i].default # Absent
              /\ DefaultMatchesCell(fields[i])
              /\ fields[i].name \notin edited )
                => result[fields[i].name] = fields[i].default

\* C4 (amended): a retained field that provides a default of the type of its
\* value cell, and whose name is not repeated by a later field, is returned
\* with that default when no widget of that name was edited before the
\* commit; for a repeated name this is the default of the last such field.
C4_DefaultReturned ==
    (Returned /\ Committed) =>
        \A i \in 1..Len(fields) :
            ( /\ fields[i].default # Absent
              /\ DefaultMatchesCell(fields[i])
              /\ LastOfName(i)
              /\ fields[i].name \notin edited )
                => result[fields[i].name] = fields[i].default

C4_Witness ==
    /\ Returned /\ Committed
    /\ \E i, j \in 1..Len(fields) :
         /\ i < j
         /\ fields[i].name = fields[j].name
         /\ fields[i].default # Absent
         /\ fields[j].default # Absent
         /\ fields[i].default # fields[j].default
         /\ DefaultMatchesCell(fields[j])
         /\ fields[j].name \notin edited
         /\ result[fields[j].name] = fields[j].default

\* the value a fresh cell of field f is claimed to hold
ClaimedSeed(f) ==
    IF f.default # Absent THEN f.default.v
    ELSE IF FieldType(f) = "checkbox" THEN "0" ELSE ""

\* C5 (as claimed): construction succeeds for fields of the four kinds with
\* or without a default, and each retained field (taken here where its name
\* occurs once) has a cell of the class of its kind holding the default, or
\* the empty string / false when there is none.
C5_Cells ==
    (window # "none" /\ outcome = "none" /\ edited = {}) =>
        /\ pc = "mainloop"
        /\ \A i \in 1..Len(fields) :
              OnlyOfName(i) =>
                 /\ fields[i].name \in DOMAIN data
                 /\ data[fields[i].name].k =
                       (IF FieldType(fields[i]) = "checkbox"
                        THEN "BooleanVar" ELSE "StringVar")
                 /\ data[fields[i].name].v = ClaimedSeed(fields[i])
                 /\ CanGet(data[fields[i].name])

\* C6: once a terminal callback has fired, no later step changes the
\* outcome, the event that caused it, or the mapping, and no callback runs
\* again (none fails either): one transition per dialog.
C6_OneTransition ==
    [][(outcome = "committed" \/ outcome = "cancelled")
          => (outcome' = outcome /\ trigger' = trigger
              /\ data' = data /\ tk_error' = tk_error)]_vars

C6_Witness ==
    /\ Returned /\ Committed
    /\ result = data
    /\ DOMAIN result # {}
    /\ edited # {}

\* C7 (as claimed): loginbox, for every combination of the dialog's
\* keywords, delegates to autobox with username, password and then the
\* caller's additional fields, and a committed result has both keys.
C7_Loginbox ==
    entry = "loginbox" =>
        /\ exc # "TypeError"
        /\ pc # "loginbox"
              => call_fields = default_fields(default_username) \o arg_fields
        /\ Committed => {"username", "password"} \subseteq DOMAIN data

\* the retained field whose default the toolkit's BooleanVar rejects
RejectedDefault(f) ==
    /\ HasName(f)
    /\ FieldType(f) = "checkbox"
    /\ f.default.k # "bool"
    /\ ~IsTclBoolean(FieldDefault(f).v)

\* C8: after construction the theme in use is the supplied one if and only
\* if it is one of the toolkit's theme names; otherwise (unknown name, or
\* none supplied) the earlier theme is still in use, and a failure of the
\* construction is never due to the theme.
C8_Theme ==
    window # "none" =>
        /\ theme \in {"clam", "alt", "default", "classic"}
              => current_theme = theme
        /\ theme \notin {"clam", "alt", "default", "classic"}
              => current_theme = "default"
        /\ (pc = "raised" /\ outcome = "none")
              => \E i \in 1..Len(call_fields) : RejectedDefault(call_fields[i])

C8_Witness ==
    /\ pc = "mainloop"
    /\ theme = "bogus"
    /\ current_theme = "default"

\* no cell is read once the window is gone
NoReadAfterDestroy ==
    \A i, j \in 1..Len(log) :
        (i < j /\ log[i] = "destroy") => log[j] # "read"

\* C9: when autobox returns, the steps were: the callback fixed the result
\* (cells read on commit, mapping emptied on cancel), the loop was stopped,
\* the caller took the mapping, the window was destroyed; the window is
\* gone at return, and no cell is ever read after the destruction.
C9_Order ==
    /\ NoReadAfterDestroy
    /\ Returned =>
          /\ window = "destroyed"
          /\ Committed => log = <<"read", "quit", "capture", "destroy">>
          /\ outcome = "cancelled"
                => log = <<"clear", "quit", "capture", "destroy">>
          /\ outcome \in {"committed", "cancelled"}

C9_Witness ==
    /\ Returned /\ Committed
    /\ log = <<"read", "quit", "capture", "destroy">>
    /\ DOMAIN result # {}

\* C10 (as claimed): however the event loop ends, a window-manager close
\* included, autobox returns normally, with the empty mapping or a mapping
\* of plain strings and booleans.
C10_PlainResult ==
    (outcome # "none" /\ pc \in {"returned", "raised"}) =>
        /\ pc = "returned"
        /\ \A n \in DOMAIN result : result[n].k \in {"str", "bool"}

====
